---- MODULE Spec2Model ----
(***************************************************************************)
(* Model of the animated tree scene: the Overlay control panel             *)
(* (src/components/Overlay.tsx) and the ChristmasTree scene with its       *)
(* MorphingSystem particle groups (src/unnamed/part_000).                  *)
(*                                                                         *)
(* JavaScript numbers are modelled as exact rationals <<n, d>> (d > 0, in  *)
(* lowest terms); IEEE rounding is not modelled.  cos/sin are not          *)
(* representable, so a position built as (cos(a) * r, y, sin(a) * r) is    *)
(* kept in cylindrical form (r, a, y), and the hover offset                *)
(* sin(time + phase) * hoverAmp is kept as its amplitude hoverAmp.         *)
(***************************************************************************)
EXTENDS Integers, Sequences, FiniteSets, TLC

VARIABLES
    lightsOn,        \* prop lightsOn
    isAssembled,     \* prop isAssembled
    rotationSpeed,   \* prop rotationSpeed
    speedHist,       \* successive values of rotationSpeed (initial, then after each Spin click)
    starIntensity,   \* rendered intensity of the star pointLight
    soulIntensity,   \* rendered intensity of the internal pointLight
    morphPc,         \* MorphingSystem lifecycle: "unrendered", "rendered", "mounted"
    count,           \* MorphingSystem prop count
    data,            \* MorphingSystem useMemo data
    factor,          \* MorphingSystem factor.current
    frames,          \* number of frame ticks that ran with a mounted mesh
    instances,       \* per-particle transform written by the last frame tick
    spPc,            \* ornament generation: "idle", "gen", "done"
    spTotal,         \* total passed to getSpiralPos
    spOffset,        \* offsetAngle passed to getSpiralPos
    ornaments        \* results of getSpiralPos(i, total, offset) for i = 0, 1, ...

vars == <<lightsOn, isAssembled, rotationSpeed, speedHist, starIntensity,
          soulIntensity, morphPc, count, data, factor, frames,
          instances, spPc, spTotal, spOffset, ornaments>>

overlayVars == <<lightsOn, isAssembled, rotationSpeed, speedHist,
                 starIntensity, soulIntensity>>
morphVars == <<morphPc, count, data, factor, frames, instances>>
spiralVars == <<spPc, spTotal, spOffset, ornaments>>

----------------------------------------------------------------------------
(* Exact rational arithmetic standing for JavaScript number arithmetic.    *)

RECURSIVE GCD(_, _)
GCD(a, b) == IF b = 0 THEN a ELSE GCD(b, a % b)

Abs(n) == IF n < 0 THEN -n ELSE n

Rat(n, d) ==
    LET s == IF d < 0 THEN -1 ELSE 1
        g == GCD(Abs(n), Abs(d))
    IN  <<(s * n) \div g, (s * d) \div g>>

Num(n) == <<n, 1>>
Zero == Num(0)
One == Num(1)

RNeg(a) == <<-a[1], a[2]>>
RAdd(a, b) ==
    LET g == GCD(a[2], b[2])
    IN  Rat(a[1] * (b[2] \div g) + b[1] * (a[2] \div g), (a[2] \div g) * b[2])
RSub(a, b) == RAdd(a, RNeg(b))
RMul(a, b) ==
    LET g1 == GCD(Abs(a[1]), b[2])
        g2 == GCD(Abs(b[1]), a[2])
    IN  Rat((a[1] \div g1) * (b[1] \div g2), (a[2] \div g2) * (b[2] \div g1))
RDiv(a, b) == RMul(a, Rat(b[2], b[1]))
RLt(a, b) ==
    LET g == GCD(a[2], b[2])
    IN  a[1] * (b[2] \div g) < b[1] * (a[2] \div g)
RLe(a, b) == ~RLt(b, a)
RMin(a, b) == IF RLt(b, a) THEN b ELSE a
RMax(a, b) == IF RLt(a, b) THEN b ELSE a
RAbs(a) == <<Abs(a[1]), a[2]>>
RBetween(v, a, b) == RLe(RMin(a, b), v) /\ RLe(v, RMax(a, b))

\* THREE.MathUtils.lerp(x, y, t) = (1 - t) * x + t * y
Lerp(x, y, t) == RAdd(RMul(RSub(One, t), x), RMul(t, y))

\* THREE.MathUtils.clamp(value, min, max) = Math.max(min, Math.min(max, value))
Clamp(value, min, max) == RMax(min, RMin(max, value))

----------------------------------------------------------------------------
(* Overlay control panel and the lights of ChristmasTree.                  *)

MaxClicks == 3

InitSpeeds == {Num(-1), Zero, Rat(1, 4), Rat(1, 2), One, Num(2), Num(3)}

\* <pointLight intensity={lightsOn ? 3 : 0} /> of the star topper
StarLightIntensity(lights) == IF lights THEN 3 ELSE 0

\* faulty variant: the internal light ignores lightsOn
SoulLightIntensityIgnoresLights(assembled, lights) == IF assembled THEN 2 ELSE 0

\* <pointLight intensity={isAssembled && lightsOn ? 2 : 0} /> at the origin
SoulLightIntensity(assembled, lights) == IF assembled /\ lights THEN 2 ELSE 0

\* faulty variant: a click on a spinning tree leaves the speed as it is
SpinOnClickValueNoReset(speed) == IF RLt(Zero, speed) THEN speed ELSE Rat(1, 2)

\* the argument of setRotationSpeed in the Spin button's onClick
SpinOnClickValue(speed) == IF RLt(Zero, speed) THEN Zero ELSE Rat(1, 2)

\* ChristmasTree re-renders with the new props
RenderLights(assembled, lights) ==
    /\ starIntensity' = StarLightIntensity(lights)
    /\ soulIntensity' = SoulLightIntensity(assembled, lights)

\* Morph button: onClick={toggleAssemble}
ClickMorph ==
    /\ isAssembled' = ~isAssembled
    /\ RenderLights(isAssembled', lightsOn)
    /\ UNCHANGED <<lightsOn, rotationSpeed, speedHist>>
    /\ UNCHANGED morphVars
    /\ UNCHANGED spiralVars

\* Lumos button: onClick={toggleLights}
ClickLumos ==
    /\ lightsOn' = ~lightsOn
    /\ RenderLights(isAssembled, lightsOn')
    /\ UNCHANGED <<isAssembled, rotationSpeed, speedHist>>
    /\ UNCHANGED morphVars
    /\ UNCHANGED spiralVars

\* Spin button: onClick={() => setRotationSpeed(rotationSpeed > 0 ? 0 : 0.5)}
ClickSpin ==
    /\ Len(speedHist) <= MaxClicks
    /\ rotationSpeed' = SpinOnClickValue(rotationSpeed)
    /\ speedHist' = Append(speedHist, rotationSpeed')
    /\ UNCHANGED <<lightsOn, isAssembled, starIntensity, soulIntensity>>
    /\ UNCHANGED morphVars
    /\ UNCHANGED spiralVars

EmptyData == [treePositions |-> <<>>, scatterPositions |-> <<>>, scales |-> <<>>,
              speeds |-> <<>>, phases |-> <<>>, treeRotations |-> <<>>]

MorphIdle ==
    /\ morphPc = "unrendered"
    /\ count = 0
    /\ data = EmptyData
    /\ factor = Zero
    /\ frames = 0
    /\ instances = <<>>

SpiralIdle ==
    /\ spPc = "idle"
    /\ spTotal = 0
    /\ spOffset = Zero
    /\ ornaments = <<>>

OverlayInit ==
    /\ lightsOn \in BOOLEAN
    /\ isAssembled \in BOOLEAN
    /\ rotationSpeed \in InitSpeeds
    /\ speedHist = <<rotationSpeed>>
    /\ starIntensity = StarLightIntensity(lightsOn)
    /\ soulIntensity = SoulLightIntensity(isAssembled, lightsOn)

Init == OverlayInit /\ MorphIdle /\ SpiralIdle

Next == ClickMorph \/ ClickLumos \/ ClickSpin

Spec == Init /\ [][Next]_vars

----------------------------------------------------------------------------
(* MorphingSystem: one instanced particle group.                           *)

MaxCount == 2
MaxFrames == 3

Vec(x, y, z) == <<Num(x), Num(y), Num(z)>>

\* values returned by generatePositions(i): tree, scatter, scale and rotation
GenOutputs ==
    { [tree |-> Vec(1, 4, -2), scatter |-> Vec(-7, 4, 9),
       scale |-> Rat(1, 2), rotation |-> Vec(0, 1, 0)],
      [tree |-> Vec(-3, -4, 0), scatter |-> Vec(5, 6, -8),
       scale |-> One, rotation |-> Vec(0, 0, 0)] }

\* values returned by Math.random(), in [0, 1), for speeds[i]
Randoms == {Zero, Rat(4, 5)}

\* values returned by Math.random(), in [0, 1), for phases[i]
PhaseRandoms == {Rat(1, 4)}

\* baseScale prop: 0.3 for the foliage, 1 by default
BaseScales == {Rat(3, 10), One}

\* frame delta in seconds
Deltas == {Rat(1, 3), Rat(2, 3), One, Num(2)}

\* new Float32Array(n)
NewFloat32Array(n) == [k \in 1..n |-> Zero]

\* arr[idx] = v, with the 0-based index of the code
SetAt(arr, idx, v) == [arr EXCEPT ![idx + 1] = v]

\* arr[idx], with the 0-based index of the code
At(arr, idx) == arr[idx + 1]

\* one iteration of the loop of useMemo: particle i from generatePositions(i)
BuildParticle(d, i, pos, rnd, baseScale) ==
    [treePositions |->
        SetAt(SetAt(SetAt(d.treePositions, i * 3, pos.tree[1]),
                    i * 3 + 1, pos.tree[2]), i * 3 + 2, pos.tree[3]),
     scatterPositions |->
        SetAt(SetAt(SetAt(d.scatterPositions, i * 3, pos.scatter[1]),
                    i * 3 + 1, pos.scatter[2]), i * 3 + 2, pos.scatter[3]),
     treeRotations |->
        SetAt(SetAt(SetAt(d.treeRotations, i * 3, pos.rotation[1]),
                    i * 3 + 1, pos.rotation[2]), i * 3 + 2, pos.rotation[3]),
     scales |-> SetAt(d.scales, i, RMul(pos.scale, baseScale)),
     speeds |-> SetAt(d.speeds, i, RAdd(Rat(1, 2), RMul(rnd.speed, Rat(1, 2)))),
     phases |-> SetAt(d.phases, i, RMul(rnd.phase, Num(2)))]

RECURSIVE BuildLoop(_, _, _, _, _, _)
BuildLoop(d, i, n, gen, rnd, baseScale) ==
    IF i < n
    THEN BuildLoop(BuildParticle(d, i, gen[i], rnd[i], baseScale),
                   i + 1, n, gen, rnd, baseScale)
    ELSE d

\* faulty variant: every array is allocated with count * 3 elements
AllocDataAllTriple(n) ==
    [treePositions |-> NewFloat32Array(n * 3),
     scatterPositions |-> NewFloat32Array(n * 3),
     scales |-> NewFloat32Array(n * 3),
     speeds |-> NewFloat32Array(n * 3),
     phases |-> NewFloat32Array(n * 3),
     treeRotations |-> NewFloat32Array(n * 3)]

AllocData(n) ==
    [treePositions |-> NewFloat32Array(n * 3),
     scatterPositions |-> NewFloat32Array(n * 3),
     scales |-> NewFloat32Array(n),
     speeds |-> NewFloat32Array(n),
     phases |-> NewFloat32Array(n),
     treeRotations |-> NewFloat32Array(n * 3)]

\* the useMemo callback: allocate the arrays, then fill them particle by particle
BuildData(n, gen, rnd, baseScale) == BuildLoop(AllocData(n), 0, n, gen, rnd, baseScale)

\* target = isAssembled ? 1 : 0
Target(assembled) == IF assembled THEN One ELSE Zero

\* faulty variant: the per-particle progress is not clamped
ParticleTUnclamped(t, speed) ==
    RAdd(RMul(t, speed), IF RLt(Rat(1, 2), t) THEN Rat(1, 10) ELSE Rat(-1, 10))

\* THREE.MathUtils.clamp(t * speeds[i] + (t > 0.5 ? 0.1 : -0.1), 0, 1)
ParticleT(t, speed) ==
    Clamp(RAdd(RMul(t, speed),
               IF RLt(Rat(1, 2), t) THEN Rat(1, 10) ELSE Rat(-1, 10)),
          Zero, One)

\* particleT * particleT * (3 - 2 * particleT)
SmoothT(p) == RMul(RMul(p, p), RSub(Num(3), RMul(Num(2), p)))

\* THREE.MathUtils.lerp(0.5, 0.02, smoothT)
HoverAmp(s) == Lerp(Rat(1, 2), Rat(1, 50), s)

\* body of the per-particle loop of useFrame for particle i at morph factor t:
\* the interpolated position (before the hover offset), the hover amplitude
\* and the base scale (before the pulse)
ParticleTransform(d, i, t) ==
    LET ix == i * 3
        tx == At(d.treePositions, ix)
        ty == At(d.treePositions, ix + 1)
        tz == At(d.treePositions, ix + 2)
        sx == At(d.scatterPositions, ix)
        sy == At(d.scatterPositions, ix + 1)
        sz == At(d.scatterPositions, ix + 2)
        particleT == ParticleT(t, At(d.speeds, i))
        smoothT == SmoothT(particleT)
    IN  [particleT |-> particleT,
         smoothT |-> smoothT,
         pos |-> <<Lerp(sx, tx, smoothT), Lerp(sy, ty, smoothT), Lerp(sz, tz, smoothT)>>,
         hoverAmp |-> HoverAmp(smoothT),
         scale |-> At(d.scales, i)]

\* first render of MorphingSystem: useMemo builds data, useRef initialises factor
Render ==
    /\ morphPc = "unrendered"
    /\ \E n \in 1..MaxCount, baseScale \in BaseScales :
         \E gen \in [0..(n - 1) -> GenOutputs],
            rnd \in [0..(n - 1) -> [speed : Randoms, phase : PhaseRandoms]] :
            /\ count' = n
            /\ data' = BuildData(n, gen, rnd, baseScale)
    /\ factor' = Target(isAssembled)
    /\ morphPc' = "rendered"
    /\ UNCHANGED <<frames, instances>>
    /\ UNCHANGED overlayVars
    /\ UNCHANGED spiralVars

\* commit: React attaches the instancedMesh to meshRef
Commit ==
    /\ morphPc = "rendered"
    /\ morphPc' = "mounted"
    /\ UNCHANGED <<count, data, factor, frames, instances>>
    /\ UNCHANGED overlayVars
    /\ UNCHANGED spiralVars

\* useFrame((state, delta) => ...) of MorphingSystem
Frame ==
    /\ morphPc # "unrendered"
    /\ frames < MaxFrames
    /\ \E delta \in Deltas :
         IF morphPc # "mounted"
         THEN UNCHANGED morphVars
         ELSE /\ factor' = Lerp(factor, Target(isAssembled), RMul(delta, Rat(3, 2)))
              /\ instances' = [k \in 1..count |-> ParticleTransform(data, k - 1, factor')]
              /\ frames' = frames + 1
              /\ UNCHANGED <<morphPc, count, data>>
    /\ UNCHANGED overlayVars
    /\ UNCHANGED spiralVars

MorphInit ==
    /\ lightsOn = FALSE
    /\ isAssembled \in BOOLEAN
    /\ rotationSpeed = Zero
    /\ speedHist = <<rotationSpeed>>
    /\ starIntensity = StarLightIntensity(lightsOn)
    /\ soulIntensity = SoulLightIntensity(isAssembled, lightsOn)
    /\ MorphIdle
    /\ SpiralIdle

MorphNext == Render \/ Commit \/ ClickMorph \/ Frame

SpecMorph == MorphInit /\ [][MorphNext]_vars

----------------------------------------------------------------------------
(* Ornament placement: getSpiralPos and the generators built on it.        *)

MaxTotal == 6

BAUBLE_COUNT == 120
GIFT_COUNT == 35
COOKIE_COUNT == 35

TREE_HEIGHT == Rat(19, 2)
TREE_RADIUS == Rat(19, 5)

\* yNorm = 1 - (i / (total - 1))
YNorm(i, total) == RSub(One, Rat(i, total - 1))

\* faulty variant: the normalized height is not squeezed into [0.1, 0.95]
YClampedFullRange(yNorm) == yNorm

\* yClamped = 0.1 + (yNorm * 0.85)
YClamped(yNorm) == RAdd(Rat(1, 10), RMul(yNorm, Rat(85, 100)))

\* y = yClamped * TREE_HEIGHT - (TREE_HEIGHT / 2)
SpiralY(yClamped) == RSub(RMul(yClamped, TREE_HEIGHT), RDiv(TREE_HEIGHT, Num(2)))

\* rPush = TREE_RADIUS * (1 - yClamped) + 0.3
SpiralRPush(yClamped) == RAdd(RMul(TREE_RADIUS, RSub(One, yClamped)), Rat(3, 10))

\* getSpiralPos(i, total, offsetAngle): the tree position is
\* (cos(theta) * rPush, y, sin(theta) * rPush), kept as (r, theta, y) with
\* theta = phi * turns + offset, phi the golden angle; the rotation is
\* (0, -theta, 0).  The scatter position is three independent Math.random()
\* draws that do not enter the tree position.
getSpiralPos(i, total, offsetAngle) ==
    LET yNorm == YNorm(i, total)
        yClamped == YClamped(yNorm)
        theta == [turns |-> i * 20, offset |-> offsetAngle]
    IN  [tree |-> [r |-> SpiralRPush(yClamped), theta |-> theta, y |-> SpiralY(yClamped)],
         rotation |-> [turns |-> -(i * 20), offset |-> RNeg(offsetAngle)]]

\* generateBaubles, generateGifts, generateCookies: total and offsetAngle
OrnamentGroups ==
    { [total |-> BAUBLE_COUNT, offset |-> Zero],
      [total |-> GIFT_COUNT, offset |-> Rat(5, 2)],
      [total |-> COOKIE_COUNT, offset |-> Rat(9, 2)] }

\* groups of other sizes, for getSpiralPos as a function of total
OtherGroups == { [total |-> n, offset |-> Zero] : n \in 2..MaxTotal }

\* a MorphingSystem of ornaments starts building its data
StartGroup ==
    /\ spPc = "idle"
    /\ \E g \in OrnamentGroups \cup OtherGroups :
         /\ spTotal' = g.total
         /\ spOffset' = g.offset
    /\ spPc' = "gen"
    /\ ornaments' = <<>>
    /\ UNCHANGED overlayVars
    /\ UNCHANGED morphVars

\* generatePositions(i) for the next i of the build loop
GenerateOrnament ==
    /\ spPc = "gen"
    /\ Len(ornaments) < spTotal
    /\ ornaments' = Append(ornaments, getSpiralPos(Len(ornaments), spTotal, spOffset))
    /\ spPc' = IF Len(ornaments') = spTotal THEN "done" ELSE "gen"
    /\ UNCHANGED <<spTotal, spOffset>>
    /\ UNCHANGED overlayVars
    /\ UNCHANGED morphVars

SpiralInit ==
    /\ lightsOn = FALSE
    /\ isAssembled = FALSE
    /\ rotationSpeed = Zero
    /\ speedHist = <<rotationSpeed>>
    /\ starIntensity = StarLightIntensity(lightsOn)
    /\ soulIntensity = SoulLightIntensity(isAssembled, lightsOn)
    /\ MorphIdle
    /\ SpiralIdle

SpiralNext == StartGroup \/ GenerateOrnament

SpecSpiral == SpiralInit /\ [][SpiralNext]_vars

----------------------------------------------------------------------------
(* Properties.                                                             *)

Half == Rat(1, 2)

\* the target and the distance of a morph factor to it
Dist(f, assembled) == RAbs(RSub(f, Target(assembled)))

\* C1: every frame tick with a mounted mesh leaves the morph factor no farther
\* from the current target than before, strictly closer when it was not at
\* the target, and never on the other side of the target.
C1_FrameApproachesTarget ==
    [][ frames' = frames + 1 =>
          LET T == Target(isAssembled)
          IN  /\ RLe(Dist(factor', isAssembled), Dist(factor, isAssembled))
              /\ (factor # T => RLt(Dist(factor', isAssembled), Dist(factor, isAssembled)))
              /\ (RLe(factor, T) => RLe(factor', T))
              /\ (RLe(T, factor) => RLe(T, factor')) ]_vars

TreeAt(d, i) == <<At(d.treePositions, i * 3), At(d.treePositions, i * 3 + 1),
                  At(d.treePositions, i * 3 + 2)>>
ScatterAt(d, i) == <<At(d.scatterPositions, i * 3), At(d.scatterPositions, i * 3 + 1),
                     At(d.scatterPositions, i * 3 + 2)>>

\* C2: at morph factor 0 every particle's interpolated position is its scatter
\* position, and at morph factor 1 it is its tree position.
C2_MorphEndpoints ==
    \A k \in 1..Len(instances) :
        /\ (factor = Zero => instances[k].pos = ScatterAt(data, k - 1))
        /\ (factor = One => instances[k].pos = TreeAt(data, k - 1))

\* C3: with lightsOn false both point lights have intensity 0; with lightsOn
\* true the star light has intensity 3 and the internal light has intensity 2
\* exactly when isAssembled, and 0 otherwise.
C3_LightsToggleable ==
    /\ (~lightsOn => starIntensity = 0 /\ soulIntensity = 0)
    /\ (lightsOn => /\ starIntensity = 3
                    /\ soulIntensity = IF isAssembled THEN 2 ELSE 0)

C3_Witness ==
    /\ ~lightsOn
    /\ isAssembled
    /\ starIntensity = 0
    /\ soulIntensity = 0

\* C4: after one or more Spin clicks rotationSpeed is 0 or 0.5, each click
\* flips whether rotationSpeed > 0, and two consecutive clicks restore a value
\* that was 0 or 0.5.
C4_SpinToggle ==
    /\ rotationSpeed = speedHist[Len(speedHist)]
    /\ \A k \in 2..Len(speedHist) :
          /\ speedHist[k] \in {Zero, Half}
          /\ RLt(Zero, speedHist[k]) # RLt(Zero, speedHist[k - 1])
    /\ \A k \in 3..Len(speedHist) :
          speedHist[k - 2] \in {Zero, Half} => speedHist[k] = speedHist[k - 2]

C4_Witness ==
    /\ Len(speedHist) >= 3
    /\ speedHist[1] = Half
    /\ speedHist[2] = Zero
    /\ rotationSpeed = Half

\* C5 as stated: every data array (both position arrays, scales, phases,
\* speeds) of a built group has length count.
C5_AllLengthsEqualCount ==
    morphPc # "unrendered" =>
        /\ Len(data.treePositions) = count
        /\ Len(data.scatterPositions) = count
        /\ Len(data.scales) = count
        /\ Len(data.phases) = count
        /\ Len(data.speeds) = count

\* C5 amended: the two position arrays hold three numbers per particle and
\* have length 3 * count; scales, phases and speeds have length count.
C5_ArrayLengths ==
    morphPc # "unrendered" =>
        /\ Len(data.treePositions) = 3 * count
        /\ Len(data.scatterPositions) = 3 * count
        /\ Len(data.scales) = count
        /\ Len(data.phases) = count
        /\ Len(data.speeds) = count

C5_Witness ==
    /\ morphPc = "rendered"
    /\ count = 2
    /\ Len(data.treePositions) = 6
    /\ Len(data.speeds) = 2

\* C6: the morph factor always lies in [0, 1].
C6_FactorInUnitInterval == RLe(Zero, factor) /\ RLe(factor, One)

\* C7: for every particle and every morph factor, particleT and smoothT are
\* in [0, 1], each coordinate of the interpolated position lies between the
\* scatter and the tree coordinate, and the hover amplitude is in [0.02, 0.5].
C7_ParticleBounds ==
    \A k \in 1..Len(instances) :
        LET p == instances[k]
            tr == TreeAt(data, k - 1)
            sc == ScatterAt(data, k - 1)
        IN  /\ RLe(Zero, p.particleT) /\ RLe(p.particleT, One)
            /\ RLe(Zero, p.smoothT) /\ RLe(p.smoothT, One)
            /\ \A c \in 1..3 : RBetween(p.pos[c], sc[c], tr[c])
            /\ RLe(Rat(1, 50), p.hoverAmp) /\ RLe(p.hoverAmp, Half)

C7_Witness ==
    /\ RLt(One, factor)
    /\ \E k \in 1..Len(instances) :
          /\ instances[k].particleT = One
          /\ instances[k].pos = TreeAt(data, k - 1)

\* the normalized height of a tree height y: (y + TREE_HEIGHT / 2) / TREE_HEIGHT
NormHeight(y) == RDiv(RAdd(y, RDiv(TREE_HEIGHT, Num(2))), TREE_HEIGHT)

\* C8: every ornament's height is strictly inside the tree's height range, its
\* normalized height is in [0.1, 0.95], its radial distance is
\* TREE_RADIUS * (1 - normalized height) + 0.3, and a higher ornament has a
\* smaller radius than a lower one.
C8_SpiralAvoidsEdges ==
    \A k \in 1..Len(ornaments) :
        LET o == ornaments[k].tree
            h == NormHeight(o.y)
        IN  /\ RLt(RNeg(RDiv(TREE_HEIGHT, Num(2))), o.y)
            /\ RLt(o.y, RDiv(TREE_HEIGHT, Num(2)))
            /\ RLe(Rat(1, 10), h) /\ RLe(h, Rat(95, 100))
            /\ o.r = RAdd(RMul(TREE_RADIUS, RSub(One, h)), Rat(3, 10))
            /\ \A j \in 1..Len(ornaments) :
                  RLt(ornaments[j].tree.y, o.y) => RLt(o.r, ornaments[j].tree.r)

C8_Witness ==
    /\ spPc = "done"
    /\ spTotal = BAUBLE_COUNT
    /\ Len(ornaments) = BAUBLE_COUNT
    /\ NormHeight(ornaments[1].tree.y) = Rat(95, 100)
    /\ NormHeight(ornaments[BAUBLE_COUNT].tree.y) = Rat(1, 10)

\* C9: in a complete group the ornament with yNorm = 1 has the lowest height
\* and the largest radius, and the ornament with yNorm = 0 has the highest
\* height and the smallest radius.
C9_YNormOneIsBottom ==
    spPc = "done" =>
        \A k \in 1..Len(ornaments) :
            LET o == ornaments[k].tree
                yNorm == YNorm(k - 1, spTotal)
            IN  /\ yNorm = One =>
                    \A j \in 1..Len(ornaments) :
                        /\ RLe(o.y, ornaments[j].tree.y)
                        /\ RLe(ornaments[j].tree.r, o.r)
                /\ yNorm = Zero =>
                    \A j \in 1..Len(ornaments) :
                        /\ RLe(ornaments[j].tree.y, o.y)
                        /\ RLe(o.r, ornaments[j].tree.r)

====
